---- MODULE Spec2Model ----
(***************************************************************************)
(* Model of src/groth16/exporter.rs: the structure-only constraint         *)
(* recorder RawCircuit and its driver export_to_json.                      *)
(*                                                                         *)
(* Vectors are 0-indexed in the source and 1-indexed here: the element of  *)
(* index i of a Vec is element i + 1 of the sequence that models it.       *)
(* A LinearCombination is the sequence of its (Variable, Scalar) pairs in  *)
(* insertion order; a column list is a sequence of (Scalar, usize) pairs.  *)
(***************************************************************************)
EXTENDS Integers, Sequences, FiniteSets, TLC

(* Bounds of the model: what the circuit routine may do in one run.  It    *)
(* makes at most MaxAux alloc calls and MaxInputs alloc_input calls, and   *)
(* its enforce calls and the terms of their linear combinations number at  *)
(* most MaxWork together.                                                  *)
MaxAux == 2
MaxInputs == 1
MaxWork == 4

(* Scalar::one(), the coefficient `lc + Variable` gives the added term. *)
One == 1

(* Another field element, which the routine uses as a coefficient too. *)
Two == One + One

(* SynthesisError values the routine may return. *)
Errors == {"AssignmentMissing", "Unsatisfiable"}

Input(i) == [kind |-> "Input", id |-> i]
Aux(i) == [kind |-> "Aux", id |-> i]

(* No variable: the return value of an operation that returns none. *)
NoVar == [kind |-> "None", id |-> 0]

(* The variables the routine names in its linear combinations.  Whether an *)
(* index has been allocated when it is used depends on the state.          *)
Vars == {Input(0), Input(1), Aux(0), Aux(1)}

(* The terms the routine adds to its linear combinations: every variable   *)
(* with coefficient one, and one variable of each variant with another     *)
(* coefficient as well.  The recorder only copies coefficients.            *)
Terms == (Vars \X {One}) \cup ({Input(1), Aux(0)} \X {Two})

(* What the value closure the routine gives to an allocation would return *)
(* if it were called: the export runs the routine without an assignment,   *)
(* so the closure has no value to give.                                    *)
RoutineValue == "AssignmentMissing"

(* LinearCombination::zero() *)
Zero == <<>>

VARIABLES
    cs,          \* the RawCircuit of this export
    pc,          \* position of export_to_json
    pad_i,       \* the padding loop's variable i
    pad_n,       \* the padding loop's range end, cs.num_inputs read at loop entry
    output,      \* the lines printed to standard output
    result,      \* what export_to_json returned
    synth,       \* what circuit.synthesize returned
    last_op,     \* the call that returned last, and the variable it returned
    rets,        \* the variables the allocations have returned
    calls,       \* how many calls of each kind the routine made
    invoked,     \* the closure parameters the recorder has called so far
    built        \* the terms the three builders of the last enforce call add

vars == <<cs, pc, pad_i, pad_n, output, result, synth, last_op, rets, calls,
          invoked, built>>

(* RawCircuit { num_inputs: 0, ..., lc_c: vec![] } *)
EmptyCircuit ==
    [num_inputs |-> 0, num_aux |-> 0, num_constraints |-> 0,
     at_inputs |-> <<>>, bt_inputs |-> <<>>, ct_inputs |-> <<>>,
     at_aux |-> <<>>, bt_aux |-> <<>>, ct_aux |-> <<>>,
     lc_a |-> <<>>, lc_b |-> <<>>, lc_c |-> <<>>]

(* ---------------------------------------------------------------------- *)
(* The recorder's operations, as functions of the recorder state.         *)
(* ---------------------------------------------------------------------- *)

(* A faulty alloc that calls its value closure, as a recorder that         *)
(* computes the assignment does.                                           *)
alloc_invokes_value == {"value"}

(* The closure parameters alloc calls: it binds both to _ . *)
alloc_invokes == {}

(* The closure parameters alloc_input calls: it binds both to _ . *)
alloc_input_invokes == {}

(* The closure parameters enforce calls: a, b and c, not the annotation. *)
enforce_invokes == {"a", "b", "c"}

(* The closure parameters push_namespace calls: it binds its one to _ . *)
push_namespace_invokes == {}

(* A faulty alloc that grows the A ledger of the Input variant. *)
alloc_into_inputs(s) ==
    [s EXCEPT !.num_aux = @ + 1,
              !.at_inputs = Append(@, <<>>),
              !.bt_aux = Append(@, <<>>),
              !.ct_aux = Append(@, <<>>)]

(* RawCircuit::alloc: the recorder after the call. *)
alloc(s) ==
    [s EXCEPT !.num_aux = @ + 1,
              !.at_aux = Append(@, <<>>),
              !.bt_aux = Append(@, <<>>),
              !.ct_aux = Append(@, <<>>)]

(* A faulty alloc that takes its index from the Input counter. *)
alloc_ret_from_inputs(s) == Aux(s.num_inputs)

(* RawCircuit::alloc: the variable returned. *)
alloc_ret(s) == Aux(s.num_aux)

(* RawCircuit::alloc_input: the recorder after the call. *)
alloc_input(s) ==
    [s EXCEPT !.num_inputs = @ + 1,
              !.at_inputs = Append(@, <<>>),
              !.bt_inputs = Append(@, <<>>),
              !.ct_inputs = Append(@, <<>>)]

(* A faulty alloc_input that reads its index after the increment. *)
alloc_input_ret_after_increment(s) == Input(s.num_inputs + 1)

(* RawCircuit::alloc_input: the variable returned. *)
alloc_input_ret(s) == Input(s.num_inputs)

(* A faulty push that inserts at the front of the column list. *)
push_entry_at_front(ledger, id, coeff, this_constraint) ==
    [ledger EXCEPT ![id + 1] = <<<<coeff, this_constraint>>>> \o @]

(* ledger[id].push((coeff, this_constraint)) for an index inside the ledger. *)
push_entry(ledger, id, coeff, this_constraint) ==
    [ledger EXCEPT ![id + 1] = Append(@, <<coeff, this_constraint>>)]

(* enforce's inner fn eval: walks the terms of l in order and pushes each  *)
(* into the column list of its variable.  Indexing a ledger past its end   *)
(* panics: the walk stops there, with the pushes made so far.              *)
RECURSIVE eval(_, _, _, _)
eval(l, inputs, aux, this_constraint) ==
    IF l = <<>>
    THEN [inputs |-> inputs, aux |-> aux, panicked |-> FALSE]
    ELSE LET index == Head(l)[1]
             coeff == Head(l)[2]
         IN  IF index.kind = "Input"
             THEN IF index.id < Len(inputs)
                  THEN eval(Tail(l),
                            push_entry(inputs, index.id, coeff, this_constraint),
                            aux, this_constraint)
                  ELSE [inputs |-> inputs, aux |-> aux, panicked |-> TRUE]
             ELSE IF index.id < Len(aux)
                  THEN eval(Tail(l), inputs,
                            push_entry(aux, index.id, coeff, this_constraint),
                            this_constraint)
                  ELSE [inputs |-> inputs, aux |-> aux, panicked |-> TRUE]

(* A builder, given as the terms it adds, called on a linear combination:  *)
(* the terms appended in order (lc + (coeff, var) + ...).                  *)
call_builder(terms, lc) == lc \o terms

(* RawCircuit::enforce with the builders a, b, c, each given as the terms  *)
(* it adds: the recorder after the call, or at the panic.                  *)
enforce(s, a, b, c) ==
    LET la == call_builder(a, Zero)
        lb == call_builder(b, Zero)
        lc == call_builder(c, Zero)
        s1 == [s EXCEPT !.lc_a = Append(@, la),
                        !.lc_b = Append(@, lb),
                        !.lc_c = Append(@, lc)]
        ea == eval(la, s1.at_inputs, s1.at_aux, s1.num_constraints)
        s2 == [s1 EXCEPT !.at_inputs = ea.inputs, !.at_aux = ea.aux]
        eb == eval(lb, s2.bt_inputs, s2.bt_aux, s2.num_constraints)
        s3 == [s2 EXCEPT !.bt_inputs = eb.inputs, !.bt_aux = eb.aux]
        ec == eval(lc, s3.ct_inputs, s3.ct_aux, s3.num_constraints)
        s4 == [s3 EXCEPT !.ct_inputs = ec.inputs, !.ct_aux = ec.aux]
    IN  IF ea.panicked THEN [cs |-> s2, panicked |-> TRUE]
        ELSE IF eb.panicked THEN [cs |-> s3, panicked |-> TRUE]
        ELSE IF ec.panicked THEN [cs |-> s4, panicked |-> TRUE]
        ELSE [cs |-> [s4 EXCEPT !.num_constraints = @ + 1], panicked |-> FALSE]

(* A faulty pop_namespace that drops the constraint recorded last. *)
pop_namespace_dropping(s) ==
    IF s.num_constraints = 0 THEN s
    ELSE [s EXCEPT !.num_constraints = @ - 1,
                   !.lc_a = SubSeq(@, 1, Len(@) - 1),
                   !.lc_b = SubSeq(@, 1, Len(@) - 1),
                   !.lc_c = SubSeq(@, 1, Len(@) - 1)]

(* RawCircuit::push_namespace: an empty body. *)
push_namespace(s) == s

(* RawCircuit::pop_namespace: an empty body. *)
pop_namespace(s) == s

(* RawCircuit::get_root: returns self, the recorder untouched. *)
get_root(s) == s

(* A faulty padding builder that always names the reserved variable. *)
padding_a_reserved(i) == <<<<Input(0), One>>>>

(* The A builder of a padding constraint, |lc| lc + Variable(Index::Input(i)): *)
(* the term it adds.                                                       *)
padding_a(i) == <<<<Input(i), One>>>>

(* A faulty padding range that leaves the last Input variable out. *)
padding_range_short(s) == s.num_inputs - 1

(* The range of the padding loop: 0..cs.num_inputs, its end. *)
padding_range(s) == s.num_inputs

(* The ? after circuit.synthesize(&mut cs): the error export_to_json       *)
(* returns for the error e of the routine (From<T> for T).                 *)
question_mark(e) == e

(* println!("{:?}", v.0) for every v of a matrix, after its title line. *)
matrix_lines(title, rows) == <<title>> \o rows

(* A faulty dump that prints the rows without the title lines. *)
dump_without_titles(s) == s.lc_a \o s.lc_b \o s.lc_c

(* Everything export_to_json prints. *)
dump(s) ==
    matrix_lines("A matrice", s.lc_a) \o
    matrix_lines("B matrice", s.lc_b) \o
    matrix_lines("C matrice", s.lc_c)

(* ---------------------------------------------------------------------- *)
(* export_to_json and the circuit routine it drives.                      *)
(* ---------------------------------------------------------------------- *)

NoCalls == [alloc |-> 0, alloc_input |-> 0, enforce |-> 0, work |-> 0, panics |-> 0]

Init ==
    /\ cs = EmptyCircuit
    /\ pc = "start"
    /\ pad_i = 0
    /\ pad_n = 0
    /\ output = <<>>
    /\ result = "none"
    /\ synth = "none"
    /\ last_op = [op |-> "new", ret |-> NoVar, value |-> "none"]
    /\ rets = {}
    /\ calls = NoCalls
    /\ invoked = {}
    /\ built = <<Zero, Zero, Zero>>

(* cs.alloc_input(|| "", || Ok(S::one()))?  The call always returns Ok. *)
AllocOne ==
    /\ pc = "start"
    /\ cs' = alloc_input(cs)
    /\ last_op' = [op |-> "alloc_input", ret |-> alloc_input_ret(cs), value |-> "Ok"]
    /\ rets' = rets \cup {alloc_input_ret(cs)}
    /\ invoked' = invoked \cup alloc_input_invokes
    /\ pc' = "synthesize"
    /\ UNCHANGED <<pad_i, pad_n, output, result, synth, calls>>
    /\ UNCHANGED built

(* The routine calls cs.alloc; its value closure has no value to give. *)
RoutineAlloc ==
    /\ pc = "synthesize"
    /\ calls.alloc < MaxAux
    /\ cs' = alloc(cs)
    /\ last_op' = [op |-> "alloc", ret |-> alloc_ret(cs), value |-> RoutineValue]
    /\ rets' = rets \cup {alloc_ret(cs)}
    /\ invoked' = invoked \cup alloc_invokes
    /\ calls' = [calls EXCEPT !.alloc = @ + 1]
    /\ UNCHANGED <<pc, pad_i, pad_n, output, result, synth>>
    /\ UNCHANGED built

(* The routine calls cs.alloc_input; its value closure has no value to give. *)
RoutineAllocInput ==
    /\ pc = "synthesize"
    /\ calls.alloc_input < MaxInputs
    /\ cs' = alloc_input(cs)
    /\ last_op' = [op |-> "alloc_input", ret |-> alloc_input_ret(cs),
                   value |-> RoutineValue]
    /\ rets' = rets \cup {alloc_input_ret(cs)}
    /\ invoked' = invoked \cup alloc_input_invokes
    /\ calls' = [calls EXCEPT !.alloc_input = @ + 1]
    /\ UNCHANGED <<pc, pad_i, pad_n, output, result, synth>>
    /\ UNCHANGED built

(* What the routine does with a panic of one of its calls: it lets the     *)
(* unwinding pass through synthesize and export_to_json, or it catches it  *)
(* (std::panic::catch_unwind) and goes on with the recorder as the         *)
(* panicking call left it.                                                 *)
PanicOutcomes == {"propagate", "catch"}

(* The routine calls cs.enforce with builders that add the terms a, b and  *)
(* c.  What follows a panic inside enforce is the routine's choice.        *)
RoutineEnforce ==
    /\ pc = "synthesize"
    /\ calls.work < MaxWork
    /\ \E la \in 0..(MaxWork - calls.work - 1) :
       \E lb \in 0..(MaxWork - calls.work - 1 - la) :
       \E lc \in 0..(MaxWork - calls.work - 1 - la - lb) :
       \E a \in [1..la -> Terms], b \in [1..lb -> Terms], c \in [1..lc -> Terms] :
          LET r == enforce(cs, a, b, c)
          IN  /\ cs' = r.cs
              /\ \E outcome \in PanicOutcomes :
                    pc' = IF r.panicked /\ outcome = "propagate"
                          THEN "panicked" ELSE pc
              /\ last_op' = [op |-> IF r.panicked THEN "enforce_panic" ELSE "enforce",
                             ret |-> NoVar, value |-> "none"]
              /\ built' = <<a, b, c>>
              /\ calls' = [calls EXCEPT !.enforce = @ + 1,
                                           !.work = @ + 1 + la + lb + lc,
                                           !.panics = @ + (IF r.panicked THEN 1 ELSE 0)]
    /\ invoked' = invoked \cup enforce_invokes
    /\ UNCHANGED <<pad_i, pad_n, output, result, synth, rets>>

(* The routine calls cs.push_namespace. *)
RoutinePushNamespace ==
    /\ pc = "synthesize"
    /\ cs' = push_namespace(cs)
    /\ invoked' = invoked \cup push_namespace_invokes
    /\ last_op' = [op |-> "push_namespace", ret |-> NoVar, value |-> "none"]
    /\ UNCHANGED <<pc, pad_i, pad_n, output, result, synth, rets, calls>>
    /\ UNCHANGED built

(* The routine calls cs.pop_namespace. *)
RoutinePopNamespace ==
    /\ pc = "synthesize"
    /\ cs' = pop_namespace(cs)
    /\ UNCHANGED invoked
    /\ last_op' = [op |-> "pop_namespace", ret |-> NoVar, value |-> "none"]
    /\ UNCHANGED <<pc, pad_i, pad_n, output, result, synth, rets, calls>>
    /\ UNCHANGED built

(* The routine calls cs.get_root, which returns the recorder itself. *)
RoutineGetRoot ==
    /\ pc = "synthesize"
    /\ cs' = get_root(cs)
    /\ UNCHANGED invoked
    /\ last_op' = [op |-> "get_root", ret |-> NoVar, value |-> "none"]
    /\ UNCHANGED <<pc, pad_i, pad_n, output, result, synth, rets, calls>>
    /\ UNCHANGED built

(* circuit.synthesize(&mut cs)? with the routine returning Ok(()): the     *)
(* padding loop starts, its range 0..cs.num_inputs evaluated once.         *)
SynthesizeOk ==
    /\ pc = "synthesize"
    /\ synth' = "Ok"
    /\ pc' = "padding"
    /\ pad_i' = 0
    /\ pad_n' = padding_range(cs)
    /\ last_op' = [op |-> "synthesize", ret |-> NoVar, value |-> "none"]
    /\ UNCHANGED <<cs, output, result, rets, calls, invoked>>
    /\ UNCHANGED built

(* circuit.synthesize(&mut cs)? with the routine returning Err(e): the ?   *)
(* returns Err(e) from export_to_json at once.                             *)
SynthesizeErr ==
    /\ pc = "synthesize"
    /\ \E e \in Errors :
          /\ synth' = e
          /\ result' = question_mark(e)
    /\ pc' = "done"
    /\ last_op' = [op |-> "synthesize", ret |-> NoVar, value |-> "none"]
    /\ UNCHANGED <<cs, pad_i, pad_n, output, rets, calls, invoked>>
    /\ UNCHANGED built

(* One iteration of: for i in 0..cs.num_inputs { cs.enforce(...) } *)
Pad ==
    /\ pc = "padding"
    /\ pad_i < pad_n
    /\ LET r == enforce(cs, padding_a(pad_i), Zero, Zero)
       IN  /\ cs' = r.cs
           /\ pc' = IF r.panicked THEN "panicked" ELSE pc
           /\ last_op' = [op |-> IF r.panicked THEN "enforce_panic" ELSE "enforce",
                          ret |-> NoVar, value |-> "none"]
    /\ pad_i' = pad_i + 1
    /\ built' = <<padding_a(pad_i), Zero, Zero>>
    /\ invoked' = invoked \cup enforce_invokes
    /\ UNCHANGED <<pad_n, output, result, synth, rets, calls>>

(* The range of the padding loop is exhausted: the printing starts. *)
PadExit ==
    /\ pc = "padding"
    /\ pad_i >= pad_n
    /\ pc' = "printing"
    /\ UNCHANGED <<cs, pad_i, pad_n, output, result, synth, last_op, rets, calls,
                   invoked, built>>

(* One println! of lines 163-176 writes its line: the next line of the     *)
(* dump, after the lines already written.                                  *)
Println ==
    /\ pc = "printing"
    /\ Len(output) < Len(dump(cs))
    /\ output' = Append(output, dump(cs)[Len(output) + 1])
    /\ UNCHANGED <<cs, pc, pad_i, pad_n, result, synth, last_op, rets, calls,
                   invoked, built>>

(* One println! of lines 163-176 fails to write to standard output: it     *)
(* panics, and export_to_json unwinds with the lines written so far.       *)
PrintlnPanic ==
    /\ pc = "printing"
    /\ Len(output) < Len(dump(cs))
    /\ pc' = "panicked"
    /\ last_op' = [op |-> "println_panic", ret |-> NoVar, value |-> "none"]
    /\ UNCHANGED <<cs, pad_i, pad_n, output, result, synth, rets, calls,
                   invoked, built>>

(* Every line is written: export_to_json returns Ok(()). *)
ReturnOk ==
    /\ pc = "printing"
    /\ Len(output) = Len(dump(cs))
    /\ result' = "Ok"
    /\ pc' = "done"
    /\ UNCHANGED <<cs, pad_i, pad_n, output, synth, last_op, rets, calls,
                   invoked, built>>

Next ==
    \/ AllocOne
    \/ RoutineAlloc
    \/ RoutineAllocInput
    \/ RoutineEnforce
    \/ RoutinePushNamespace
    \/ RoutinePopNamespace
    \/ RoutineGetRoot
    \/ SynthesizeOk
    \/ SynthesizeErr
    \/ Pad
    \/ PadExit
    \/ Println
    \/ PrintlnPanic
    \/ ReturnOk

Spec == Init /\ [][Next]_vars

(* export_to_json is one synchronous call: once the routine has returned   *)
(* the padding loop runs on, and the return follows the last line.  A      *)
(* println! is a blocking write to standard output: nothing makes it end,  *)
(* so no fairness is assumed of Println or PrintlnPanic, and the call may  *)
(* stay in a println! for ever.                                            *)
FairSpec ==
    /\ Spec
    /\ WF_vars(Pad)
    /\ WF_vars(PadExit)
    /\ WF_vars(ReturnOk)

(* ---------------------------------------------------------------------- *)
(* Vocabulary of the properties.                                          *)
(* ---------------------------------------------------------------------- *)

(* export_to_json has returned Ok(()). *)
Exported == pc = "done" /\ result = "Ok"

(* export_to_json has not unwound: its recorder is there to be observed. *)
Live == pc # "panicked"

(* export_to_json has ended, by returning or by unwinding. *)
Ended == pc \in {"done", "panicked"}

(* k: the enforce calls the routine made.  n: the allocated Input variables. *)
UserConstraints == calls.enforce
InputCount == cs.num_inputs

(* Row c (0-based) of a matrix in row form. *)
Row(m, c) == m[c + 1]

(* ---------------------------------------------------------------------- *)
(* C1.  After a successful export of a routine that made k enforce calls  *)
(* and left n Input variables, each of lc_a, lc_b, lc_c holds exactly     *)
(* k + n constraints and num_constraints = k + n; a routine that          *)
(* allocates nothing and enforces nothing ends with exactly 1.            *)
(* ---------------------------------------------------------------------- *)
C1_ConstraintCount ==
    Exported =>
        /\ Len(cs.lc_a) = UserConstraints + InputCount
        /\ Len(cs.lc_b) = UserConstraints + InputCount
        /\ Len(cs.lc_c) = UserConstraints + InputCount
        /\ cs.num_constraints = UserConstraints + InputCount
        /\ (calls = NoCalls => cs.num_constraints = 1 /\ Len(cs.lc_a) = 1)

(* ---------------------------------------------------------------------- *)
(* C2.  After a successful export with k user constraints and n Input     *)
(* variables, row k + i is the padding row of Input(i) for every i in     *)
(* 0..n-1: A is the single term (1, Input(i)), B and C are empty; these   *)
(* n rows, in increasing index order, are all the rows after the user's.  *)
(* ---------------------------------------------------------------------- *)
C2_PaddingRows ==
    Exported =>
        /\ Len(cs.lc_a) = UserConstraints + InputCount
        /\ \A i \in 0..(InputCount - 1) :
              /\ Row(cs.lc_a, UserConstraints + i) = <<<<Input(i), One>>>>
              /\ Row(cs.lc_b, UserConstraints + i) = <<>>
              /\ Row(cs.lc_c, UserConstraints + i) = <<>>

C2_Witness ==
    /\ Exported
    /\ UserConstraints = 1
    /\ InputCount = 2
    /\ Row(cs.lc_a, 0) # <<>>
    /\ Row(cs.lc_a, 2) = <<<<Input(1), One>>>>

(* ---------------------------------------------------------------------- *)
(* C3.  When the routine is invoked the recorder has num_inputs = 1,      *)
(* num_aux = 0 and num_constraints = 0; no alloc_input call of the        *)
(* routine returns Input(0), and its first alloc_input returns Input(1).  *)
(* ---------------------------------------------------------------------- *)
C3_ReservedOne ==
    pc = "synthesize" =>
        /\ (calls = NoCalls =>
               /\ cs.num_inputs = 1
               /\ cs.num_aux = 0
               /\ cs.num_constraints = 0
               /\ rets = {Input(0)})
        /\ (last_op.op = "alloc_input" /\ calls.alloc_input >= 1 =>
               last_op.ret # Input(0))
        /\ (last_op.op = "alloc_input" /\ calls.alloc_input = 1 =>
               last_op.ret = Input(1))

C3_Witness ==
    /\ pc = "synthesize"
    /\ last_op.op = "alloc_input"
    /\ calls.alloc_input = 1
    /\ calls.alloc = 2
    /\ calls.enforce = 1

(* ---------------------------------------------------------------------- *)
(* C4.  If the routine returns a synthesis failure, export_to_json        *)
(* returns that same failure, appends no padding constraint and prints    *)
(* nothing; export_to_json returns Ok exactly when the routine did: an    *)
(* export that has ended has returned Ok if and only if the routine       *)
(* returned Ok.                                                           *)
(* ---------------------------------------------------------------------- *)
C4_FailurePropagates ==
    /\ (synth \in Errors =>
           /\ pc = "done"
           /\ result = synth
           /\ output = <<>>
           /\ pad_i = 0
           /\ Len(cs.lc_a) = UserConstraints
           /\ Len(cs.lc_b) = UserConstraints
           /\ Len(cs.lc_c) = UserConstraints)
    /\ (Ended => (result = "Ok" <=> synth = "Ok"))
    /\ (result = "Ok" => synth = "Ok")

(* ---------------------------------------------------------------------- *)
(* C5.  The recorder is total, so no call of alloc,                       *)
(* alloc_input, enforce, push_namespace, pop_namespace or get_root ever   *)
(* fails, enforce included whatever the indices of the variables in its   *)
(* linear combinations, allocated by this recorder or not.                *)
(* ---------------------------------------------------------------------- *)
C5_RecorderTotal == last_op.op # "enforce_panic"

(* The variables of the terms of a linear combination. *)
VarsOf(l) == {l[j][1] : j \in DOMAIN l}

(* ---------------------------------------------------------------------- *)
(* C6.  Row/column consistency: for each matrix, each constraint index c  *)
(* and each variable v, row c holds the term (v, x) as many times as v's  *)
(* column list of that matrix holds the entry (x, c); every variable of a *)
(* row has a column list.  The counts are compared for every term of a    *)
(* row and for every entry of a column list: for any other (c, v, x) both *)
(* counts are zero.                                                       *)
(* ---------------------------------------------------------------------- *)
Matrices == {"A", "B", "C"}

(* The row form of a matrix. *)
Rows(s, m) == IF m = "A" THEN s.lc_a ELSE IF m = "B" THEN s.lc_b ELSE s.lc_c

(* The column ledger of a matrix for a variant. *)
Ledger(s, m, kind) ==
    IF kind = "Input"
    THEN (IF m = "A" THEN s.at_inputs ELSE IF m = "B" THEN s.bt_inputs ELSE s.ct_inputs)
    ELSE (IF m = "A" THEN s.at_aux ELSE IF m = "B" THEN s.bt_aux ELSE s.ct_aux)

(* The column list of variable v in matrix m. *)
Column(s, m, v) == Ledger(s, m, v.kind)[v.id + 1]

(* How many times e occurs in the sequence q. *)
Count(q, e) == Cardinality({j \in DOMAIN q : q[j] = e})

(* The terms of row c agree with the column lists of their variables. *)
RowInColumns(s, m, c) ==
    LET row == Row(Rows(s, m), c)
    IN  \A j \in DOMAIN row :
           /\ row[j][1].id < Len(Ledger(s, m, row[j][1].kind))
           /\ Count(row, row[j])
                  = Count(Column(s, m, row[j][1]), <<row[j][2], c>>)

(* The entries of v's column list agree with the rows they name. *)
ColumnInRows(s, m, v) ==
    LET col == Column(s, m, v)
        rows == Rows(s, m)
    IN  \A j \in DOMAIN col :
           /\ col[j][2] < Len(rows)
           /\ Count(col, col[j]) = Count(Row(rows, col[j][2]), <<v, col[j][1]>>)

C6_RowColumnConsistent ==
    Live =>
        \A m \in Matrices :
            /\ \A c \in 0..(Len(Rows(cs, m)) - 1) : RowInColumns(cs, m, c)
            /\ \A i \in 0..(Len(Ledger(cs, m, "Input")) - 1) :
                   ColumnInRows(cs, m, Input(i))
            /\ \A i \in 0..(Len(Ledger(cs, m, "Aux")) - 1) :
                   ColumnInRows(cs, m, Aux(i))

(* ---------------------------------------------------------------------- *)
(* C7.  The stored sizes match the counters: the three row sequences have *)
(* num_constraints rows, the three Input ledgers num_inputs column lists, *)
(* the three Auxiliary ledgers num_aux; while the routine runs, after n   *)
(* Input allocations, m Auxiliary allocations and k enforce calls, these  *)
(* are k, n and m.                                                        *)
(* ---------------------------------------------------------------------- *)
C7_SizesMatchCounters ==
    Live =>
        /\ Len(cs.lc_a) = cs.num_constraints
        /\ Len(cs.lc_b) = cs.num_constraints
        /\ Len(cs.lc_c) = cs.num_constraints
        /\ Len(cs.at_inputs) = cs.num_inputs
        /\ Len(cs.bt_inputs) = cs.num_inputs
        /\ Len(cs.ct_inputs) = cs.num_inputs
        /\ Len(cs.at_aux) = cs.num_aux
        /\ Len(cs.bt_aux) = cs.num_aux
        /\ Len(cs.ct_aux) = cs.num_aux
        /\ (pc = "synthesize" =>
               /\ cs.num_constraints = calls.enforce
               /\ cs.num_inputs = calls.alloc_input + 1
               /\ cs.num_aux = calls.alloc)

(* ---------------------------------------------------------------------- *)
(* C9.  Indices are sequential per variant, however the calls interleave: *)
(* the j-th alloc call (from 0) returns Aux(j) and the j-th alloc_input   *)
(* call returns Input(j); no two allocations return the same Variable;    *)
(* a returned index is below its variant's count after the call.          *)
(* ---------------------------------------------------------------------- *)
C9_SequentialIndices ==
    /\ (last_op.op = "alloc" =>
           /\ last_op.ret = Aux(calls.alloc - 1)
           /\ last_op.ret.id < cs.num_aux)
    /\ (last_op.op = "alloc_input" =>
           /\ last_op.ret = Input(calls.alloc_input)
           /\ last_op.ret.id < cs.num_inputs)
    /\ (pc # "start" =>
           Cardinality(rets) = calls.alloc + calls.alloc_input + 1)
    /\ \A v \in rets :
           v.id < (IF v.kind = "Input" THEN cs.num_inputs ELSE cs.num_aux)

C9_Witness ==
    /\ last_op.op = "alloc"
    /\ last_op.ret = Aux(1)
    /\ calls.alloc_input = 1
    /\ calls.enforce = 1
    /\ rets = {Input(0), Input(1), Aux(0), Aux(1)}

(* ---------------------------------------------------------------------- *)
(* C10.  The recorder grows append-only: across every step the three      *)
(* counters never decrease, the old lc_a, lc_b, lc_c are prefixes of the  *)
(* new ones, each ledger keeps its column lists at their positions, and   *)
(* each old column list is a prefix of the new one.                       *)
(* ---------------------------------------------------------------------- *)
IsPrefix(p, q) == Len(p) <= Len(q) /\ SubSeq(q, 1, Len(p)) = p

LedgerGrows(old, new) ==
    /\ Len(old) <= Len(new)
    /\ \A j \in DOMAIN old : IsPrefix(old[j], new[j])

AppendOnly(old, new) ==
    /\ old.num_inputs <= new.num_inputs
    /\ old.num_aux <= new.num_aux
    /\ old.num_constraints <= new.num_constraints
    /\ IsPrefix(old.lc_a, new.lc_a)
    /\ IsPrefix(old.lc_b, new.lc_b)
    /\ IsPrefix(old.lc_c, new.lc_c)
    /\ LedgerGrows(old.at_inputs, new.at_inputs)
    /\ LedgerGrows(old.bt_inputs, new.bt_inputs)
    /\ LedgerGrows(old.ct_inputs, new.ct_inputs)
    /\ LedgerGrows(old.at_aux, new.at_aux)
    /\ LedgerGrows(old.bt_aux, new.bt_aux)
    /\ LedgerGrows(old.ct_aux, new.ct_aux)

C10_AppendOnly == [][AppendOnly(cs, cs')]_vars

C10_Witness ==
    /\ Exported
    /\ cs.num_constraints = 4
    /\ cs.num_aux = 1
    /\ Len(cs.at_inputs[1]) = 2
    /\ Len(cs.bt_aux[1]) = 1

(* ---------------------------------------------------------------------- *)
(* C11.  push_namespace, pop_namespace and get_root leave the whole       *)
(* recorder unchanged (the three counters, the six ledgers, the three row *)
(* sequences), whatever their number and order, a pop_namespace without a *)
(* push_namespace before it included.                                     *)
(* ---------------------------------------------------------------------- *)
NamespaceOps == {"push_namespace", "pop_namespace", "get_root"}

C11_NamespaceNoOp ==
    [][last_op'.op \in NamespaceOps => cs' = cs]_vars

C11_Witness ==
    /\ last_op.op = "pop_namespace"
    /\ pc = "synthesize"
    /\ cs.num_constraints = 2
    /\ cs.num_aux = 1
    /\ cs.at_aux[1] # <<>>
    /\ cs.lc_a[2] # <<>>

(* ---------------------------------------------------------------------- *)
(* C12.  The recorder calls no closure it is given except the three       *)
(* builders of enforce: alloc and alloc_input call neither the value nor  *)
(* the naming closure, enforce and push_namespace do not call the naming  *)
(* closure; so an allocation whose value closure would return a synthesis *)
(* failure still succeeds and returns a variable.                         *)
(* ---------------------------------------------------------------------- *)
C12_OnlyBuildersInvoked ==
    /\ invoked \subseteq {"a", "b", "c"}
    /\ (last_op.op \in {"alloc", "alloc_input"} =>
           /\ last_op.ret \in rets
           /\ last_op.ret.kind = (IF last_op.op = "alloc" THEN "Aux" ELSE "Input"))

C12_Witness ==
    /\ last_op.op = "alloc"
    /\ last_op.value = "AssignmentMissing"
    /\ last_op.ret = Aux(0)
    /\ cs.num_aux = 1
    /\ invoked = {"a", "b", "c"}

(* ---------------------------------------------------------------------- *)
(* C13.  Scenario 1: the routine allocates auxiliary x, auxiliary y and   *)
(* input pub and enforces x * y = pub.  The export ends with              *)
(* num_inputs = 2, num_aux = 2 and 3 constraints: row 0 is the user's,    *)
(* rows 1 and 2 are the padding rows of Input(0) and Input(1).            *)
(* ---------------------------------------------------------------------- *)
SingleTermOver(l, v) == Len(l) = 1 /\ l[1][1] = v

Scenario1 ==
    /\ calls.alloc = 2
    /\ calls.alloc_input = 1
    /\ calls.enforce = 1
    /\ calls.panics = 0
    /\ rets = {Input(0), Input(1), Aux(0), Aux(1)}
    /\ Len(cs.lc_a) >= 1
    /\ SingleTermOver(Row(cs.lc_a, 0), Aux(0))
    /\ SingleTermOver(Row(cs.lc_b, 0), Aux(1))
    /\ SingleTermOver(Row(cs.lc_c, 0), Input(1))

C13_Scenario1 ==
    Exported /\ Scenario1 =>
        /\ cs.num_inputs = 2
        /\ cs.num_aux = 2
        /\ cs.num_constraints = 3
        /\ Len(cs.lc_a) = 3 /\ Len(cs.lc_b) = 3 /\ Len(cs.lc_c) = 3
        /\ \A i \in {0, 1} :
              /\ Row(cs.lc_a, 1 + i) = <<<<Input(i), One>>>>
              /\ Row(cs.lc_b, 1 + i) = <<>>
              /\ Row(cs.lc_c, 1 + i) = <<>>

C13_Witness ==
    /\ Exported
    /\ Scenario1
    /\ Row(cs.lc_a, 0) = <<<<Aux(0), One>>>>

(* ---------------------------------------------------------------------- *)
(* C14.  As claimed: on success the output is one line per matrix, in the *)
(* order A, B, C, each line listing the terms of every constraint in      *)
(* constraint order, so the number of lines does not depend on the number *)
(* of constraints.                                                        *)
(* ---------------------------------------------------------------------- *)
C14_OneLinePerMatrix ==
    Exported =>
        /\ Len(output) = 3
        /\ output = <<cs.lc_a, cs.lc_b, cs.lc_c>>

(* C14, amended.  On success the output is, for each matrix in the order  *)
(* A, B, C, a title line followed by one line per constraint in           *)
(* constraint order, that line listing the constraint's terms: with N     *)
(* rows in each matrix, 3 + 3 * N lines.                                  *)
C14_TitleAndRowLines ==
    Exported =>
        LET N == Len(cs.lc_a)
        IN  /\ Len(output) = 3 + 3 * N
            /\ output[1] = "A matrice"
            /\ output[N + 2] = "B matrice"
            /\ output[2 * N + 3] = "C matrice"
            /\ \A c \in 0..(N - 1) :
                  /\ output[2 + c] = Row(cs.lc_a, c)
                  /\ output[N + 3 + c] = Row(cs.lc_b, c)
                  /\ output[2 * N + 4 + c] = Row(cs.lc_c, c)

C14_Witness ==
    /\ Exported
    /\ cs.num_constraints = 4
    /\ Len(output) = 15
    /\ output[7] = <<<<Aux(0), Two>>>>

(* ---------------------------------------------------------------------- *)
(* C15.  Density: after a successful export every allocated Input         *)
(* variable i, the reserved one and those the routine never used          *)
(* included, has a non-empty A column list, whose last entry is           *)
(* (1, k + i), k being the number of user constraints.                    *)
(* ---------------------------------------------------------------------- *)
C15_InputDensity ==
    Exported =>
        \A i \in 0..(cs.num_inputs - 1) :
            LET col == cs.at_inputs[i + 1]
            IN  /\ col # <<>>
                /\ col[Len(col)] = <<One, UserConstraints + i>>

(* ---------------------------------------------------------------------- *)
(* C16.  An allocation touches its own variant only: alloc returns        *)
(* Aux(old num_aux), adds 1 to num_aux and one empty list to each of      *)
(* at_aux, bt_aux, ct_aux, and leaves num_inputs, the Input ledgers,      *)
(* num_constraints and the rows unchanged; alloc_input does the same for  *)
(* the Input variant and leaves the Auxiliary side and the rows unchanged.*)
(* ---------------------------------------------------------------------- *)
AllocStep == calls'.alloc = calls.alloc + 1

AllocInputStep ==
    \/ calls'.alloc_input = calls.alloc_input + 1
    \/ (pc = "start" /\ pc' = "synthesize")

RowsUnchanged ==
    /\ cs'.num_constraints = cs.num_constraints
    /\ cs'.lc_a = cs.lc_a
    /\ cs'.lc_b = cs.lc_b
    /\ cs'.lc_c = cs.lc_c

InputSideUnchanged ==
    /\ cs'.num_inputs = cs.num_inputs
    /\ cs'.at_inputs = cs.at_inputs
    /\ cs'.bt_inputs = cs.bt_inputs
    /\ cs'.ct_inputs = cs.ct_inputs

AuxSideUnchanged ==
    /\ cs'.num_aux = cs.num_aux
    /\ cs'.at_aux = cs.at_aux
    /\ cs'.bt_aux = cs.bt_aux
    /\ cs'.ct_aux = cs.ct_aux

C16_AllocationFrame ==
    [][ /\ (AllocStep =>
               /\ last_op'.ret = Aux(cs.num_aux)
               /\ cs'.num_aux = cs.num_aux + 1
               /\ cs'.at_aux = Append(cs.at_aux, <<>>)
               /\ cs'.bt_aux = Append(cs.bt_aux, <<>>)
               /\ cs'.ct_aux = Append(cs.ct_aux, <<>>)
               /\ InputSideUnchanged
               /\ RowsUnchanged)
        /\ (AllocInputStep =>
               /\ last_op'.ret = Input(cs.num_inputs)
               /\ cs'.num_inputs = cs.num_inputs + 1
               /\ cs'.at_inputs = Append(cs.at_inputs, <<>>)
               /\ cs'.bt_inputs = Append(cs.bt_inputs, <<>>)
               /\ cs'.ct_inputs = Append(cs.ct_inputs, <<>>)
               /\ AuxSideUnchanged
               /\ RowsUnchanged) ]_vars

C16_Witness ==
    /\ last_op.op = "alloc"
    /\ last_op.ret = Aux(1)
    /\ cs.num_inputs = 2
    /\ cs.num_constraints = 1
    /\ cs.at_aux = <<<<<<One, 0>>>>, <<>>>>
    /\ cs.ct_inputs[2] # <<>>

(* ---------------------------------------------------------------------- *)
(* C17.  enforce stores the builders' results verbatim: each builder is   *)
(* called on the empty linear combination and the row appended at index   *)
(* c = old num_constraints holds the three results, same terms in the     *)
(* same order; a variable that occurs twice in one linear combination is  *)
(* two terms of the row and two entries, with constraint index c, of its  *)
(* column list.                                                           *)
(* ---------------------------------------------------------------------- *)
C17_EnforceVerbatim ==
    last_op.op = "enforce" =>
        LET c == cs.num_constraints - 1
        IN  /\ Row(cs.lc_a, c) = built[1]
            /\ Row(cs.lc_b, c) = built[2]
            /\ Row(cs.lc_c, c) = built[3]
            /\ \A m \in Matrices :
                  LET row == Row(Rows(cs, m), c)
                  IN  \A j \in DOMAIN row :
                         Count(Column(cs, m, row[j][1]), <<row[j][2], c>>)
                             = Count(row, row[j])

(* ---------------------------------------------------------------------- *)
(* C18.  Each column list of each of the six ledgers is ordered by        *)
(* enforcement: its constraint indices are non-decreasing, each is less   *)
(* than num_constraints, and a variable that occurs in no row of a matrix *)
(* has an empty list in that matrix's ledger.                             *)
(* ---------------------------------------------------------------------- *)
ColumnOrdered(col, n) ==
    /\ \A j \in DOMAIN col : col[j][2] < n
    /\ \A j \in 1..(Len(col) - 1) : col[j][2] <= col[j + 1][2]

OccursIn(rows, v) == \E c \in DOMAIN rows : v \in VarsOf(rows[c])

ColumnOrderedAndUsed(s, m, v) ==
    LET col == Column(s, m, v)
    IN  col # <<>> =>
           /\ ColumnOrdered(col, s.num_constraints)
           /\ OccursIn(Rows(s, m), v)

C18_ColumnsOrdered ==
    Live =>
        \A m \in Matrices :
            /\ \A i \in 0..(Len(Ledger(cs, m, "Input")) - 1) :
                  ColumnOrderedAndUsed(cs, m, Input(i))
            /\ \A i \in 0..(Len(Ledger(cs, m, "Aux")) - 1) :
                  ColumnOrderedAndUsed(cs, m, Aux(i))

(* ---------------------------------------------------------------------- *)
(* C19.  Export terminates when the routine does: once the routine has    *)
(* returned Ok the padding loop runs exactly num_inputs iterations (its   *)
(* bound is the Input count at the end of the routine; padding changes    *)
(* neither num_inputs nor num_aux), the output is printed and export      *)
(* returns; padding adds nothing to the B and C ledgers nor to any        *)
(* Auxiliary ledger.                                                      *)
(* ---------------------------------------------------------------------- *)
PaddingFrame ==
    /\ cs'.num_inputs = cs.num_inputs
    /\ cs'.bt_inputs = cs.bt_inputs
    /\ cs'.ct_inputs = cs.ct_inputs
    /\ AuxSideUnchanged
    /\ pad_n' = pad_n
    /\ pad_n = cs.num_inputs
    /\ pad_i' <= pad_n
    /\ Len(cs'.lc_a) = UserConstraints + pad_i'

C19_ExportTerminates ==
    /\ (synth = "Ok") ~> Exported
    /\ [](synth = "Ok" => pc # "panicked")
    /\ [][pc = "padding" => PaddingFrame]_vars
    /\ [](Exported => pad_i = cs.num_inputs /\ output # <<>>)

(* ---------------------------------------------------------------------- *)
(* C20.  The column form holds nothing the row form does not: every entry *)
(* (x, c) of variable v's column list in a matrix is a term (v, x) of row *)
(* c of that matrix, and for each matrix the column entries over all      *)
(* Input and Auxiliary variables number as many as the terms over all     *)
(* rows.                                                                  *)
(* ---------------------------------------------------------------------- *)
RECURSIVE TotalLen(_)
TotalLen(seqs) == IF seqs = <<>> THEN 0 ELSE Len(Head(seqs)) + TotalLen(Tail(seqs))

EntriesAreTerms(s, m, v) ==
    LET col == Column(s, m, v)
        rows == Rows(s, m)
    IN  \A j \in DOMAIN col :
           /\ col[j][2] < Len(rows)
           /\ \E t \in DOMAIN Row(rows, col[j][2]) :
                 Row(rows, col[j][2])[t] = <<v, col[j][1]>>

C20_ColumnsFromRows ==
    Live =>
        \A m \in Matrices :
            /\ \A i \in 0..(Len(Ledger(cs, m, "Input")) - 1) :
                  EntriesAreTerms(cs, m, Input(i))
            /\ \A i \in 0..(Len(Ledger(cs, m, "Aux")) - 1) :
                  EntriesAreTerms(cs, m, Aux(i))
            /\ TotalLen(Ledger(cs, m, "Input")) + TotalLen(Ledger(cs, m, "Aux"))
                   = TotalLen(Rows(cs, m))

====
